---- MODULE Spec2Model ----
(***************************************************************************)
(* Model of inspect_architecture.py: the command-line entry point, the     *)
(* library-backed inspect_gguf and the raw fallback parser                 *)
(* inspect_gguf_raw, which walks the GGUF header and its key/value         *)
(* entries with struct.unpack.                                             *)
(*                                                                         *)
(* A file is a sequence of bytes (0..255).  Python integers are unbounded, *)
(* so a decoded integer is kept as sign and magnitude, the magnitude as    *)
(* little-endian base-256 digits without leading zeros.  Every decoded     *)
(* value is a record [t, neg, d]:                                          *)
(*   t = "int"   : neg is the sign, d the magnitude digits                 *)
(*   t = "float" : neg is the sign bit, d = <<exponent, mantissa>>         *)
(*   t = "bool"  : d = <<1>> for True, <<0>> for False                     *)
(*   t = "str"   : d is the sequence of code points                        *)
(***************************************************************************)
EXTENDS Integers, Sequences, FiniteSets, TLC

\* ---------------------------------------------------------------- bounds

\* Longest list of key/value entries an input file is built from.
MaxEntries == 2
\* Largest number of bytes cut off the end of an input file.
MaxCut == 7

\* ------------------------------------------------------ bytes and numbers

Min(a, b) == IF a < b THEN a ELSE b

RECURSIVE Zeros(_)
Zeros(n) == IF n <= 0 THEN <<>> ELSE <<0>> \o Zeros(n - 1)

\* Digits without the most significant zeros.
RECURSIVE Strip(_)
Strip(ds) ==
  IF ds = <<>> THEN <<>>
  ELSE IF ds[Len(ds)] = 0 THEN Strip(SubSeq(ds, 1, Len(ds) - 1))
  ELSE ds

Pad(ds, n) == ds \o Zeros(n - Len(ds))

\* The number a short magnitude stands for (at most three digits are summed).
RECURSIVE NatOf(_)
NatOf(ds) == IF ds = <<>> THEN 0 ELSE ds[1] + 256 * NatOf(Tail(ds))

\* A magnitude of more than three digits is larger than every length and
\* count the bounded inputs can satisfy.
IsSmall(ds) == Len(ds) <= 3

\* i < n for a small integer i and a magnitude n, as range(n) decides it.
LessThan(i, ds) == IF IsSmall(ds) THEN i < NatOf(ds) ELSE TRUE

Invert(bs) == [k \in 1..Len(bs) |-> 255 - bs[k]]

RECURSIVE AddOne(_)
AddOne(bs) ==
  IF bs = <<>> THEN <<>>
  ELSE IF bs[1] = 255 THEN <<0>> \o AddOne(Tail(bs))
  ELSE <<bs[1] + 1>> \o Tail(bs)

\* Two's complement negation in the width of bs.
Negate(bs) == AddOne(Invert(bs))

IntVal(neg, mag) == [t |-> "int", neg |-> neg, d |-> mag]
FloatVal(sign, exp, man) == [t |-> "float", neg |-> sign, d |-> <<exp, man>>]
BoolVal(b) == [t |-> "bool", neg |-> FALSE, d |-> IF b THEN <<1>> ELSE <<0>>]
StrVal(cps) == [t |-> "str", neg |-> FALSE, d |-> cps]
NoVal == [t |-> "none", neg |-> FALSE, d |-> <<>>]

\* struct.unpack("<I", b)[0] and struct.unpack("<Q", b)[0]: an unsigned
\* little-endian integer, never negative.
UnpackUnsigned(bs) == IntVal(FALSE, Strip(bs))

\* struct.unpack("<f", b)[0]: sign, 8-bit exponent and 23-bit mantissa of
\* the IEEE binary32 value (Python widens it to a double without loss).
UnpackFloat(bs) ==
  FloatVal(bs[4] >= 128,
           (bs[4] % 128) * 2 + (bs[3] \div 128),
           (bs[3] % 128) * 65536 + bs[2] * 256 + bs[1])

\* struct.unpack("?", b)[0]: any nonzero byte is True.
UnpackBool(bs) == BoolVal(bs[1] # 0)

\* ------------------------------------------------------------------ UTF-8

IsCont(b) == b >= 128 /\ b <= 191

\* Number of continuation bytes a lead byte asks for; -1 for a byte that
\* cannot start a sequence (0x80..0xC1, 0xF5..0xFF).
Need(b) ==
  IF b < 128 THEN 0
  ELSE IF b >= 194 /\ b <= 223 THEN 1
  ELSE IF b >= 224 /\ b <= 239 THEN 2
  ELSE IF b >= 240 /\ b <= 244 THEN 3
  ELSE -1

\* Range of the second byte: excludes overlong forms, surrogates and code
\* points above U+10FFFF.
Lo2(b) == IF b = 224 THEN 160 ELSE IF b = 240 THEN 144 ELSE 128
Hi2(b) == IF b = 237 THEN 159 ELSE IF b = 244 THEN 143 ELSE 191

\* Number of bytes after position i that continue the sequence started at i.
Run(bs, i) ==
  LET b == bs[i]
      n == Need(b)
      ok1 == n >= 1 /\ i + 1 <= Len(bs) /\ bs[i + 1] >= Lo2(b) /\ bs[i + 1] <= Hi2(b)
      ok2 == ok1 /\ n >= 2 /\ i + 2 <= Len(bs) /\ IsCont(bs[i + 2])
      ok3 == ok2 /\ n >= 3 /\ i + 3 <= Len(bs) /\ IsCont(bs[i + 3])
  IN IF ok3 THEN 3 ELSE IF ok2 THEN 2 ELSE IF ok1 THEN 1 ELSE 0

\* One decoding step at position i: a code point and the bytes it took, or
\* an error covering the longest prefix of a sequence that is present.
Utf8At(bs, i) ==
  LET b == bs[i]
      n == Need(b)
      k == Run(bs, i)
  IN IF n = 0 THEN [ok |-> TRUE, cp |-> b, n |-> 1]
     ELSE IF n = -1 THEN [ok |-> FALSE, cp |-> 65533, n |-> 1]
     ELSE IF k < n THEN [ok |-> FALSE, cp |-> 65533, n |-> 1 + k]
     ELSE IF n = 1 THEN [ok |-> TRUE, cp |-> (b % 32) * 64 + (bs[i + 1] % 64), n |-> 2]
     ELSE IF n = 2 THEN
       [ok |-> TRUE,
        cp |-> (b % 16) * 4096 + (bs[i + 1] % 64) * 64 + (bs[i + 2] % 64),
        n |-> 3]
     ELSE
       [ok |-> TRUE,
        cp |-> (b % 8) * 262144 + (bs[i + 1] % 64) * 4096
                 + (bs[i + 2] % 64) * 64 + (bs[i + 3] % 64),
        n |-> 4]

RECURSIVE Utf8From(_, _)
Utf8From(bs, i) ==
  IF i > Len(bs) THEN <<>>
  ELSE LET s == Utf8At(bs, i) IN <<s.cp>> \o Utf8From(bs, i + s.n)

RECURSIVE Utf8ValidFrom(_, _)
Utf8ValidFrom(bs, i) ==
  IF i > Len(bs) THEN TRUE
  ELSE LET s == Utf8At(bs, i) IN s.ok /\ Utf8ValidFrom(bs, i + s.n)

\* bytes.decode("utf-8", errors="replace"): every undecodable run becomes
\* U+FFFD (65533), nothing is raised.
DecodeReplace(bs) == Utf8From(bs, 1)

\* bytes.decode("utf-8") raises UnicodeDecodeError unless this holds.
Utf8Valid(bs) == Utf8ValidFrom(bs, 1)

\* ------------------------------------------------- the documented layout

RECURSIVE Digits(_)
Digits(n) == IF n = 0 THEN <<>> ELSE <<n % 256>> \o Digits(n \div 256)

\* struct.pack("<I", v) for n = 4 and struct.pack("<Q", v) for n = 8.
PackUnsigned(v, n) == Pad(v.d, n)

\* struct.pack("<i", v) for n = 4 and struct.pack("<q", v) for n = 8.
PackSigned(v, n) == IF v.neg THEN Negate(Pad(v.d, n)) ELSE Pad(v.d, n)

\* struct.pack("<f", v).
PackFloat(v) ==
  LET exp == v.d[1]
      man == v.d[2]
  IN <<man % 256, (man \div 256) % 256, (exp % 2) * 128 + (man \div 65536),
       (IF v.neg THEN 128 ELSE 0) + (exp \div 2)>>

\* struct.pack("?", v).
PackBool(v) == <<v.d[1]>>

Utf8EncodeOne(cp) ==
  IF cp < 128 THEN <<cp>>
  ELSE IF cp < 2048 THEN <<192 + (cp \div 64), 128 + (cp % 64)>>
  ELSE IF cp < 65536 THEN
    <<224 + (cp \div 4096), 128 + ((cp \div 64) % 64), 128 + (cp % 64)>>
  ELSE <<240 + (cp \div 262144), 128 + ((cp \div 4096) % 64),
         128 + ((cp \div 64) % 64), 128 + (cp % 64)>>

\* str.encode("utf-8").
RECURSIVE Utf8Encode(_)
Utf8Encode(cps) ==
  IF cps = <<>> THEN <<>> ELSE Utf8EncodeOne(cps[1]) \o Utf8Encode(Tail(cps))

\* A byte string behind its unsigned 64-bit byte count.
LenPrefixed(bs) == Pad(Digits(Len(bs)), 8) \o bs

\* Type tags of the format, as the comments of inspect_gguf_raw list them.
GGUF_TYPE_UINT32 == 4
GGUF_TYPE_INT32 == 5
GGUF_TYPE_FLOAT32 == 6
GGUF_TYPE_BOOL == 7
GGUF_TYPE_STRING == 8
GGUF_TYPE_ARRAY == 9
GGUF_TYPE_UINT64 == 10
GGUF_TYPE_INT64 == 11

\* The bytes of a value of the given type.
EncodeValue(tag, v) ==
  IF tag = GGUF_TYPE_UINT32 THEN PackUnsigned(v, 4)
  ELSE IF tag = GGUF_TYPE_INT32 THEN PackSigned(v, 4)
  ELSE IF tag = GGUF_TYPE_UINT64 THEN PackUnsigned(v, 8)
  ELSE IF tag = GGUF_TYPE_INT64 THEN PackSigned(v, 8)
  ELSE IF tag = GGUF_TYPE_FLOAT32 THEN PackFloat(v)
  ELSE IF tag = GGUF_TYPE_BOOL THEN PackBool(v)
  ELSE LenPrefixed(Utf8Encode(v.d))

\* An input entry: key bytes, type tag and either a value (val.t # "none"),
\* laid out by EncodeValue, or the raw bytes that follow the tag.
Payload(e) == IF e.val.t # "none" THEN EncodeValue(e.tag, e.val) ELSE e.raw

EncodeEntry(e) == LenPrefixed(e.key) \o Pad(Digits(e.tag), 4) \o Payload(e)

RECURSIVE EncodeEntries(_)
EncodeEntries(es) ==
  IF es = <<>> THEN <<>> ELSE EncodeEntry(es[1]) \o EncodeEntries(Tail(es))

GGUF_MAGIC == <<71, 71, 85, 70>>

\* magic, version (u32), tensor count (u64), key/value count (u64).
EncodeHeader(magic, version, tensor_count, kv) ==
  magic \o Pad(Digits(version), 4) \o Pad(Digits(tensor_count), 8) \o Pad(kv, 8)

\* ------------------------------------------------------- inspect_gguf_raw

\* f.read(n) at position p (0-based): the n bytes that follow, fewer at the
\* end of the file; never an error.
Read(f, p, n) == SubSeq(f, p + 1, Min(p + n, Len(f)))

\* Bytes f.read(n) returns for a decoded length n: a length beyond three
\* digits exceeds every file of the model, so the rest of the file comes back.
ReadLen(f, p, n) == IF IsSmall(n) THEN Read(f, p, NatOf(n)) ELSE Read(f, p, Len(f))

\* f.read(n) raises before reading anything when n does not fit an
\* index-sized integer (OverflowError, n >= 2^63), and may raise MemoryError
\* for any other length too large to allocate; memfail is the allocator's
\* answer in that case.
ReadRaises(n, memfail) ==
  ~IsSmall(n) /\ ((Len(n) = 8 /\ n[8] >= 128) \/ memfail)

\* Outcome of one pass through the body of the loop.
\*   kind: "pair" (line 149), "array" (line 141), "unknown" (line 146),
\*         "error" (line 152)
\*   pos: stream position afterwards;  reads: calls of f.read made
Outcome(kind, pos, reads, key, value, alen, atype) ==
  [kind |-> kind, pos |-> pos, reads |-> reads, key |-> key, value |-> value,
   alen |-> alen, atype |-> atype]

Raised(pos, reads) == Outcome("error", pos, reads, <<>>, NoVal, <<>>, <<>>)

\* A fixed-width scalar: read n bytes, struct.unpack them.
ScalarOutcome(f, p, reads, key, n, bs, value) ==
  IF Len(bs) < n THEN Raised(p + Len(bs), reads + 1)
  ELSE Outcome("pair", p + n, reads + 1, key, value, <<>>, <<>>)

\* Faulty variant of StringOutcome: a strict decode, which raises on
\* invalid UTF-8.
StringOutcomeStrict(f, p, reads, key, memfail) ==
  LET lb == Read(f, p, 8)
      s_len == UnpackUnsigned(lb).d
      p1 == p + Len(lb)
      sb == ReadLen(f, p1, s_len)
  IN IF Len(lb) < 8 THEN Raised(p1, reads + 1)
     ELSE IF ReadRaises(s_len, memfail) THEN Raised(p1, reads + 2)
     ELSE IF ~Utf8Valid(sb) THEN Raised(p1 + Len(sb), reads + 2)
     ELSE Outcome("pair", p1 + Len(sb), reads + 2, key,
                  StrVal(DecodeReplace(sb)), <<>>, <<>>)

\* val_type == 8: an 8-byte length, then that many bytes (or the bytes that
\* are left) decoded with errors="replace".
StringOutcome(f, p, reads, key, memfail) ==
  LET lb == Read(f, p, 8)
      s_len == UnpackUnsigned(lb).d
      p1 == p + Len(lb)
      sb == ReadLen(f, p1, s_len)
  IN IF Len(lb) < 8 THEN Raised(p1, reads + 1)
     ELSE IF ReadRaises(s_len, memfail) THEN Raised(p1, reads + 2)
     ELSE Outcome("pair", p1 + Len(sb), reads + 2, key,
                  StrVal(DecodeReplace(sb)), <<>>, <<>>)

\* val_type == 9: element type and element count, then the walk stops.
ArrayOutcome(f, p, reads, key) ==
  LET tb == Read(f, p, 4)
      p1 == p + Len(tb)
      nb == Read(f, p1, 8)
  IN IF Len(tb) < 4 THEN Raised(p1, reads + 1)
     ELSE IF Len(nb) < 8 THEN Raised(p1 + Len(nb), reads + 2)
     ELSE Outcome("array", p1 + 8, reads + 2, key, NoVal,
                  UnpackUnsigned(nb).d, UnpackUnsigned(tb).d)

\* Faulty variant of ValueOutcome: tag 9 is not recognised.
ValueOutcomeNoArray(f, p, reads, key, val_type, memfail) ==
  IF val_type = <<8>> THEN StringOutcome(f, p, reads, key, memfail)
  ELSE IF val_type \in {<<4>>, <<5>>} THEN
    ScalarOutcome(f, p, reads, key, 4, Read(f, p, 4), UnpackUnsigned(Read(f, p, 4)))
  ELSE IF val_type \in {<<10>>, <<11>>} THEN
    ScalarOutcome(f, p, reads, key, 8, Read(f, p, 8), UnpackUnsigned(Read(f, p, 8)))
  ELSE IF val_type = <<6>> THEN
    ScalarOutcome(f, p, reads, key, 4, Read(f, p, 4),
                  IF Len(Read(f, p, 4)) = 4 THEN UnpackFloat(Read(f, p, 4)) ELSE NoVal)
  ELSE IF val_type = <<7>> THEN
    ScalarOutcome(f, p, reads, key, 1, Read(f, p, 1),
                  IF Len(Read(f, p, 1)) = 1 THEN UnpackBool(Read(f, p, 1)) ELSE NoVal)
  ELSE Outcome("unknown", p, reads, key, NoVal, <<>>, val_type)

\* The dispatch on val_type (lines 123 to 147); val_type is the magnitude of
\* the decoded tag.
ValueOutcome(f, p, reads, key, val_type, memfail) ==
  IF val_type = <<8>> THEN StringOutcome(f, p, reads, key, memfail)
  ELSE IF val_type \in {<<4>>, <<5>>} THEN
    ScalarOutcome(f, p, reads, key, 4, Read(f, p, 4), UnpackUnsigned(Read(f, p, 4)))
  ELSE IF val_type \in {<<10>>, <<11>>} THEN
    ScalarOutcome(f, p, reads, key, 8, Read(f, p, 8), UnpackUnsigned(Read(f, p, 8)))
  ELSE IF val_type = <<6>> THEN
    ScalarOutcome(f, p, reads, key, 4, Read(f, p, 4),
                  IF Len(Read(f, p, 4)) = 4 THEN UnpackFloat(Read(f, p, 4)) ELSE NoVal)
  ELSE IF val_type = <<7>> THEN
    ScalarOutcome(f, p, reads, key, 1, Read(f, p, 1),
                  IF Len(Read(f, p, 1)) = 1 THEN UnpackBool(Read(f, p, 1)) ELSE NoVal)
  ELSE IF val_type = <<9>> THEN ArrayOutcome(f, p, reads, key)
  ELSE Outcome("unknown", p, reads, key, NoVal, <<>>, val_type)

\* One pass through the try block (lines 100 to 149) from position p: the
\* key length, the key (strict UTF-8), the type tag, the value.
EntryOutcome(f, p, memfail) ==
  LET lb == Read(f, p, 8)
      key_len == UnpackUnsigned(lb).d
      p1 == p + Len(lb)
      kb == ReadLen(f, p1, key_len)
      p2 == p1 + Len(kb)
      tb == Read(f, p2, 4)
      p3 == p2 + Len(tb)
  IN IF Len(lb) < 8 THEN Raised(p1, 1)
     ELSE IF ReadRaises(key_len, memfail) THEN Raised(p1, 2)
     ELSE IF ~Utf8Valid(kb) THEN Raised(p2, 2)
     ELSE IF Len(tb) < 4 THEN Raised(p3, 3)
     ELSE ValueOutcome(f, p3, 3, DecodeReplace(kb), UnpackUnsigned(tb).d, memfail)

\* ----------------------------------------------------------------- inputs

Entry(key, tag, val) == [key |-> key, tag |-> tag, val |-> val, raw |-> <<>>]
RawEntry(key, tag, raw) == [key |-> key, tag |-> tag, val |-> NoVal, raw |-> raw]

AllOnes8 == <<255, 255, 255, 255, 255, 255, 255, 255>>
TwoTo32 == <<0, 0, 0, 0, 1, 0, 0, 0>>

\* The entries input files are built from: every type the parser decodes,
\* with values at the edges of the type, and the malformed shapes.
Catalog ==
  { Entry(<<97>>, GGUF_TYPE_UINT32, IntVal(FALSE, <<255, 255, 255, 255>>)),
    Entry(<<98>>, GGUF_TYPE_INT32, IntVal(TRUE, <<1>>)),
    Entry(<<99>>, GGUF_TYPE_INT32, IntVal(FALSE, <<7>>)),
    Entry(<<100>>, GGUF_TYPE_UINT64, IntVal(FALSE, <<0, 0, 0, 0, 0, 0, 0, 128>>)),
    Entry(<<101>>, GGUF_TYPE_INT64, IntVal(TRUE, <<2>>)),
    Entry(<<102>>, GGUF_TYPE_FLOAT32, FloatVal(TRUE, 127, 4194304)),
    Entry(<<103>>, GGUF_TYPE_BOOL, BoolVal(TRUE)),
    Entry(<<195, 169>>, GGUF_TYPE_STRING, StrVal(<<72, 233, 8364>>)),
    \* a string value that is not UTF-8
    RawEntry(<<105>>, GGUF_TYPE_STRING, LenPrefixed(<<255, 65>>)),
    \* a string value declaring three bytes where one is stored
    RawEntry(<<106>>, GGUF_TYPE_STRING, Pad(<<3>>, 8) \o <<65>>),
    \* an array of two 32-bit elements
    RawEntry(<<108>>, GGUF_TYPE_ARRAY, Pad(<<4>>, 4) \o Pad(<<2>>, 8) \o Zeros(8)),
    \* an 8-bit integer (tag 0), which the parser does not decode
    RawEntry(<<109>>, 0, <<7>>),
    \* a key that is not UTF-8
    RawEntry(<<255>>, GGUF_TYPE_BOOL, <<1>>) }

EntryLists == UNION {[1..n -> Catalog] : n \in 0..MaxEntries}

\* Bytes that follow the entries (the tensor section of a real file): none,
\* or bytes that read as a key length of 2^64-1 or of 2^32.
Tails == {<<>>, AllOnes8, TwoTo32}

\* "GGUf": the magic with its last letter in lower case.
BadMagic == <<71, 71, 85, 102>>

Input(es, kv, cut, tail, magic) ==
  [ents |-> es, kv |-> kv, cut |-> cut, tail |-> tail, magic |-> magic]

HeaderLen == Len(EncodeHeader(GGUF_MAGIC, 3, 1, <<>>))

\* The files built from one list of entries: the well-formed file and its
\* truncations, a declared count one too small, one too large or huge (over
\* each tail), and the file under a wrong magic.  Without entries the cut
\* reaches back through the whole header.
InputsOf(es) ==
  {Input(es, Digits(Len(es)), c, <<>>, GGUF_MAGIC) :
     c \in 0..(IF es = <<>> THEN HeaderLen ELSE MaxCut)}
  \cup {Input(es, kv, 0, tail, GGUF_MAGIC) :
          kv \in {Digits(Len(es) + 1), AllOnes8}, tail \in Tails}
  \cup (IF es = <<>> THEN {}
        ELSE {Input(es, Digits(Len(es) - 1), 0, <<>>, GGUF_MAGIC)})
  \cup {Input(es, Digits(Len(es)), 0, <<>>, BadMagic)}

FileOf(in) ==
  LET whole == EncodeHeader(in.magic, 3, 1, in.kv) \o EncodeEntries(in.ents) \o in.tail
  IN SubSeq(whole, 1, Len(whole) - in.cut)

NoInput == Input(<<>>, <<>>, 0, <<>>, GGUF_MAGIC)

\* ------------------------------------------------------------------ state

VARIABLES
  hasArg,    \* len(sys.argv) > 1
  exists,    \* os.path.exists(target_path)
  inp,       \* what the file at target_path was built from
  file,      \* the bytes of the file at target_path
  pc,        \* where the program is
  stream,    \* the file object f: "unopened", "open" or "closed"
  pos,       \* f.tell()
  reads,     \* calls of f.read so far
  kv_count,  \* the decoded key/value count (magnitude digits)
  iter,      \* passes through the loop body begun so far
  stopped,   \* the loop was left through break
  exc,       \* "none", "raised" (leaving inspect_gguf_raw), "handled", "escaped"
  out        \* the lines printed so far

vars == <<hasArg, exists, inp, file, pc, stream, pos, reads, kv_count, iter,
          stopped, exc, out>>

Line(kind, key, value, alen, atype) ==
  [kind |-> kind, key |-> key, value |-> value, alen |-> alen, atype |-> atype]

Msg(kind) == Line(kind, <<>>, NoVal, <<>>, <<>>)

\* What one pass of the loop prints.
LineOf(o) == Line(o.kind, o.key, o.value, o.alen, o.atype)

Init ==
  /\ \/ /\ exists = TRUE
        /\ hasArg = TRUE
        /\ \E es \in EntryLists : inp \in InputsOf(es)
     \/ /\ exists = TRUE
        /\ hasArg = FALSE
        /\ inp \in InputsOf(<<>>)
     \/ /\ exists = FALSE
        /\ hasArg \in BOOLEAN
        /\ inp = NoInput
  /\ file = IF exists THEN FileOf(inp) ELSE <<>>
  /\ pc = "main"
  /\ stream = "unopened"
  /\ pos = 0
  /\ reads = 0
  /\ kv_count = <<>>
  /\ iter = 0
  /\ stopped = FALSE
  /\ exc = "none"
  /\ out = <<>>

\* ---------------------------------------------------------------- actions

\* Faulty variant of PathFound: the existence check is skipped.
PathFoundAlways(found) == TRUE

\* if os.path.exists(target_path) (line 169).
PathFound(found) == found

\* __main__ (lines 155 to 173): the path is the argument or the default
\* path; inspect_gguf is called only when the path exists.
Main ==
  /\ pc = "main"
  /\ LET notice == IF hasArg THEN <<>> ELSE <<Msg("default_path")>>
     IN IF PathFound(exists)
        THEN /\ pc' = "inspect_gguf"
             /\ out' = out \o notice
        ELSE /\ pc' = "done"
             /\ out' = out \o notice \o <<Msg("not_found")>>
  /\ UNCHANGED <<hasArg, exists, inp, file, stream, pos, reads, kv_count, iter,
                 stopped, exc>>

\* What gguf.GGUFReader(model_path) of the external library does: it
\* returns a reader, raises the ValueError of an unknown quantization type,
\* raises another ValueError, or raises another exception.
ReaderResults == {"reader", "unknown_quantization", "value_error", "exception"}

\* inspect_gguf up to its except clauses (lines 5 to 52).
InspectGguf ==
  /\ pc = "inspect_gguf"
  /\ \E r \in ReaderResults :
       /\ pc' = CASE r = "reader" -> "report"
                  [] r = "unknown_quantization" -> "raw_open"
                  [] OTHER -> "done"
       /\ out' = out \o <<Msg("inspecting")>> \o
                 (CASE r = "reader" -> <<>>
                    [] r = "unknown_quantization" -> <<Msg("fallback")>>
                    [] OTHER -> <<Msg("reader_error")>>)
  /\ UNCHANGED <<hasArg, exists, inp, file, stream, pos, reads, kv_count, iter,
                 stopped, exc>>

\* inspect_gguf after the reader was built (lines 54 to 75).  Line 55 is
\* outside every try: without a general.architecture field get_field returns
\* None and the AttributeError leaves the program.
Report ==
  /\ pc = "report"
  /\ \E has_architecture \in BOOLEAN :
       IF has_architecture
       THEN /\ out' = Append(out, Msg("report"))
            /\ pc' = "done"
            /\ exc' = exc
       ELSE /\ out' = Append(out, Msg("report_header"))
            /\ pc' = "crashed"
            /\ exc' = "escaped"
  /\ UNCHANGED <<hasArg, exists, inp, file, stream, pos, reads, kv_count, iter,
                 stopped>>

\* with open(path, "rb") as f (line 82).
RawOpen ==
  /\ pc = "raw_open"
  /\ stream' = "open"
  /\ pc' = "raw_magic"
  /\ UNCHANGED <<hasArg, exists, inp, file, pos, reads, kv_count, iter, stopped,
                 exc, out>>

\* Faulty variant of MagicOk: only the first three bytes are compared.
MagicOkPrefix(magic) ==
  Len(magic) >= 3 /\ SubSeq(magic, 1, 3) = SubSeq(GGUF_MAGIC, 1, 3)

\* magic != b"GGUF" (line 85), negated.
MagicOk(magic) == magic = GGUF_MAGIC

\* The magic (lines 84 to 87): on a mismatch one line is printed and the
\* function returns, which leaves the with block.
RawMagic ==
  /\ pc = "raw_magic"
  /\ LET magic == Read(file, 0, 4)
     IN /\ pos' = Len(magic)
        /\ reads' = reads + 1
        /\ IF MagicOk(magic)
           THEN /\ pc' = "raw_header"
                /\ UNCHANGED <<stream, out>>
           ELSE /\ pc' = "done"
                /\ stream' = "closed"
                /\ out' = Append(out, Msg("bad_magic"))
  /\ UNCHANGED <<hasArg, exists, inp, file, kv_count, iter, stopped, exc>>

\* Faulty variant of HeaderStream: the stream stays open when an unpack of
\* the header raises.
HeaderStreamLeak(complete) == "open"

\* The stream after the header was read: still open inside the with block,
\* closed by the with block when a struct.error leaves it.
HeaderStream(complete) == IF complete THEN "open" ELSE "closed"

\* version, tensor_count and kv_count (lines 89 to 97).  These unpacks are
\* outside the try of the loop: on a short read struct.error leaves the
\* with block (which closes f) and the function.
RawHeader ==
  /\ pc = "raw_header"
  /\ LET vb == Read(file, pos, 4)
         tb == Read(file, pos + 4, 8)
         cb == Read(file, pos + 12, 8)
         complete == Len(vb) = 4 /\ Len(tb) = 8 /\ Len(cb) = 8
     IN /\ pos' = IF Len(vb) < 4 THEN pos + Len(vb)
                  ELSE IF Len(tb) < 8 THEN pos + 4 + Len(tb)
                  ELSE pos + 12 + Len(cb)
        /\ reads' = IF Len(vb) < 4 THEN reads + 1
                    ELSE IF Len(tb) < 8 THEN reads + 2
                    ELSE reads + 3
        /\ stream' = HeaderStream(complete)
        /\ IF complete
           THEN /\ kv_count' = UnpackUnsigned(cb).d
                /\ out' = Append(out, Line("header", <<>>, NoVal,
                                           UnpackUnsigned(cb).d, UnpackUnsigned(vb).d))
                /\ pc' = "raw_loop"
                /\ exc' = exc
           ELSE /\ pc' = "inspect_except"
                /\ exc' = "raised"
                /\ UNCHANGED <<kv_count, out>>
  /\ UNCHANGED <<hasArg, exists, inp, file, iter, stopped>>

\* Faulty variant of LeavesLoop: an error does not end the loop.
LeavesLoopOnStopOnly(o) == o.kind \in {"array", "unknown"}

\* The passes that end in break (lines 142, 147 and 153).
LeavesLoop(o) == o.kind # "pair"

\* for _ in range(kv_count) (line 99) has another pass to make: no break
\* was taken and fewer than kv_count passes were begun.
LoopContinues == ~stopped /\ LessThan(iter, kv_count)

\* One pass through the body of  for _ in range(kv_count)  (lines 99 to
\* 153): every pass prints exactly one line.
RawEntryStep ==
  /\ pc = "raw_loop"
  /\ LoopContinues
  /\ \E memfail \in BOOLEAN :
       LET o == EntryOutcome(file, pos, memfail)
       IN /\ pos' = o.pos
          /\ reads' = reads + o.reads
          /\ out' = Append(out, LineOf(o))
          /\ stopped' = LeavesLoop(o)
  /\ iter' = iter + 1
  /\ UNCHANGED <<hasArg, exists, inp, file, pc, stream, kv_count, exc>>

\* The end of the loop, by exhaustion or break: the with block closes f and
\* inspect_gguf_raw returns to inspect_gguf, which returns (line 43).
RawReturn ==
  /\ pc = "raw_loop"
  /\ ~LoopContinues
  /\ stream' = "closed"
  /\ pc' = "done"
  /\ UNCHANGED <<hasArg, exists, inp, file, pos, reads, kv_count, iter, stopped,
                 exc, out>>

\* Faulty variant of AfterExcept: the clause does not match and the
\* exception leaves inspect_gguf.
AfterExceptMiss == [exc |-> "escaped", pc |-> "crashed", lines |-> <<>>]

\* What the except clause of line 44 leaves behind.
AfterExcept == [exc |-> "handled", pc |-> "done", lines |-> <<Msg("raw_failed")>>]

\* except Exception as patch_e in inspect_gguf (lines 44 to 46): catches
\* what inspect_gguf_raw raised, prints it and returns.
InspectExcept ==
  /\ pc = "inspect_except"
  /\ out' = out \o AfterExcept.lines
  /\ exc' = AfterExcept.exc
  /\ pc' = AfterExcept.pc
  /\ UNCHANGED <<hasArg, exists, inp, file, stream, pos, reads, kv_count, iter,
                 stopped>>

Next ==
  \/ Main
  \/ InspectGguf
  \/ Report
  \/ RawOpen
  \/ RawMagic
  \/ RawHeader
  \/ RawEntryStep
  \/ RawReturn
  \/ InspectExcept

Spec == Init /\ [][Next]_vars

\* ------------------------------------------------------------- properties

Finished == pc \in {"done", "crashed"}

\* inspect_gguf_raw was entered and control has left it.
RawLeft == stream = "closed"

LastLine == out[Len(out)]

LinesOf(kinds) == SelectSeq(out, LAMBDA l : l.kind \in kinds)

PairLines == LinesOf({"pair"})

StopLines == LinesOf({"array", "unknown", "error"})

RangeOf(seq) == {seq[k] : k \in 1..Len(seq)}

\* struct.unpack("<i", b)[0] and struct.unpack("<q", b)[0]: the signed
\* reading of the bytes, which tags 5 and 11 declare.
UnpackSigned(bs) ==
  IF bs[Len(bs)] >= 128 THEN IntVal(TRUE, Strip(Negate(bs)))
  ELSE IntVal(FALSE, Strip(bs))

\* The value a scalar entry's bytes stand for under its declared type.
DeclaredDecode(tag, bs) ==
  IF tag \in {GGUF_TYPE_UINT32, GGUF_TYPE_UINT64} THEN UnpackUnsigned(bs)
  ELSE IF tag \in {GGUF_TYPE_INT32, GGUF_TYPE_INT64} THEN UnpackSigned(bs)
  ELSE IF tag = GGUF_TYPE_FLOAT32 THEN UnpackFloat(bs)
  ELSE UnpackBool(bs)

ScalarTags ==
  {GGUF_TYPE_UINT32, GGUF_TYPE_INT32, GGUF_TYPE_UINT64, GGUF_TYPE_INT64,
   GGUF_TYPE_FLOAT32, GGUF_TYPE_BOOL}

\* The tags the parser decodes into a pair.
DecodedTags == ScalarTags \cup {GGUF_TYPE_STRING}

\* The file is the layout of its entries, whole, under the right magic and
\* with the count of its entries in the header.
Untruncated ==
  /\ exists
  /\ inp.magic = GGUF_MAGIC
  /\ inp.cut = 0
  /\ inp.tail = <<>>

ExactCount == inp.kv = Digits(Len(inp.ents))

\* An entry laid out from a value of a type in tags, under a UTF-8 key.
ValueEntry(e, tags) == e.val.t # "none" /\ e.tag \in tags /\ Utf8Valid(e.key)

\* C1: for a well-formed file whose N entries all have scalar types, the
\* finished walk has printed exactly N pairs, in file order, each value the
\* decode of the entry's bytes under its declared type.
C1_ScalarPairsInOrder ==
  (/\ RawLeft
   /\ Untruncated
   /\ ExactCount
   /\ \A k \in 1..Len(inp.ents) : ValueEntry(inp.ents[k], ScalarTags))
  => PairLines =
       [k \in 1..Len(inp.ents) |->
          Line("pair", DecodeReplace(inp.ents[k].key),
               DeclaredDecode(inp.ents[k].tag, Payload(inp.ents[k])), <<>>, <<>>)]

\* C2: round trip: when every entry of a well-formed file was laid out from
\* a value (u32, u64, i32, i64, f32, bool or a string), the k-th pair printed
\* carries the value the k-th entry was laid out from.
C2_RoundTrip ==
  (/\ RawLeft
   /\ Untruncated
   /\ ExactCount
   /\ \A k \in 1..Len(inp.ents) : ValueEntry(inp.ents[k], DecodedTags))
  => /\ Len(PairLines) = Len(inp.ents)
     /\ \A k \in 1..Len(inp.ents) : PairLines[k].value = inp.ents[k].val

\* The magic has been read.
MagicRead == stream # "unopened" /\ pc # "raw_magic"

\* C3: once the first four bytes were read and are not GGUF (fewer than
\* four included), the call is over: one bad-magic line, one read in all,
\* the stream closed, no header line, no pair, no count decoded.
C3_BadMagicRejected ==
  (MagicRead /\ Read(file, 0, 4) # GGUF_MAGIC)
  => /\ pc = "done"
     /\ stream = "closed"
     /\ reads = 1
     /\ pos = Len(Read(file, 0, 4))
     /\ kv_count = <<>>
     /\ iter = 0
     /\ exc = "none"
     /\ LastLine.kind = "bad_magic"
     /\ Len(LinesOf({"bad_magic"})) = 1
     /\ LinesOf({"header", "pair", "array", "unknown", "error"}) = <<>>

\* A file of entries under the magic "GGUf" was rejected.
C3_Witness ==
  /\ pc = "done"
  /\ inp.magic = BadMagic
  /\ Len(inp.ents) >= 1
  /\ Len(file) > HeaderLen
  /\ LastLine.kind = "bad_magic"
  /\ reads = 1

\* Index of the first entry with an array value, 0 without one.
FirstArray(es) ==
  LET at == {k \in 1..Len(es) : es[k].tag = GGUF_TYPE_ARRAY}
  IN IF at = {} THEN 0 ELSE CHOOSE k \in at : \A j \in at : k <= j

\* Bytes of a value of a scalar type.
Width(tag) ==
  IF tag \in {GGUF_TYPE_UINT32, GGUF_TYPE_INT32, GGUF_TYPE_FLOAT32} THEN 4
  ELSE IF tag \in {GGUF_TYPE_UINT64, GGUF_TYPE_INT64} THEN 8
  ELSE 1

\* The bytes after the tag are exactly those the entry declares.
PayloadComplete(e) ==
  LET pl == Payload(e)
  IN IF e.tag = GGUF_TYPE_STRING
     THEN /\ Len(pl) >= 8
          /\ IsSmall(Strip(SubSeq(pl, 1, 8)))
          /\ NatOf(Strip(SubSeq(pl, 1, 8))) = Len(pl) - 8
     ELSE Len(pl) = Width(e.tag)

\* An entry the parser turns into a pair: a UTF-8 key, a decoded tag, a
\* complete value.
Decodable(e) == Utf8Valid(e.key) /\ e.tag \in DecodedTags /\ PayloadComplete(e)

\* The walk printed K-1 pairs, then the placeholder of entry K with its
\* element count and element type, and nothing else.
StoppedAtArray(K) ==
  LET e == inp.ents[K]
      walk == LinesOf({"pair", "array", "unknown", "error"})
  IN /\ Len(walk) = K
     /\ \A k \in 1..(K - 1) : walk[k].kind = "pair"
     /\ walk[K] = Line("array", DecodeReplace(e.key), NoVal,
                       Strip(SubSeq(e.raw, 5, 12)), Strip(SubSeq(e.raw, 1, 4)))
     /\ LastLine = walk[K]
     /\ iter = K

\* C4 as stated: whenever entry K is the first array entry of a whole file
\* (and the header declares at least K entries), the walk prints K-1 pairs,
\* one placeholder for entry K and nothing afterwards.
C4_FirstArrayStops ==
  LET K == FirstArray(inp.ents)
  IN (/\ RawLeft
      /\ exists
      /\ inp.magic = GGUF_MAGIC
      /\ inp.cut = 0
      /\ K > 0
      /\ LessThan(K - 1, inp.kv))
     => StoppedAtArray(K)

\* C4 amended: the same, for files whose entries before entry K are all
\* decodable (UTF-8 key, tag among 4, 5, 6, 7, 8, 10, 11, complete value)
\* and whose entry K has a UTF-8 key.
C4_FirstArrayStopsAfterDecodable ==
  LET K == FirstArray(inp.ents)
  IN (/\ RawLeft
      /\ exists
      /\ inp.magic = GGUF_MAGIC
      /\ inp.cut = 0
      /\ K > 0
      /\ LessThan(K - 1, inp.kv)
      /\ Utf8Valid(inp.ents[K].key)
      /\ \A k \in 1..(K - 1) : Decodable(inp.ents[k]))
     => StoppedAtArray(K)

\* An array was met as second entry under a header declaring 2^64-1
\* entries, and the walk is over.
C4_Witness ==
  /\ pc = "done"
  /\ stream = "closed"
  /\ Len(inp.ents) >= 2
  /\ Decodable(inp.ents[1])
  /\ inp.ents[2].tag = GGUF_TYPE_ARRAY
  /\ inp.kv = AllOnes8
  /\ Len(PairLines) = 1
  /\ LastLine.kind = "array"

\* C5 as stated: no exception leaves inspect_gguf_raw.
C5_NothingLeavesRaw == stream # "unopened" => exc = "none"

\* The header (magic, version, tensor count, count) is cut short.
HeaderCut == Read(file, 0, 4) = GGUF_MAGIC /\ Len(file) < HeaderLen

\* C5 amended: an error inside the loop is caught in inspect_gguf_raw and
\* printed as the last line; a short read of version, tensor_count or
\* kv_count raises out of inspect_gguf_raw and is caught and printed by the
\* except clause of inspect_gguf; either way nothing escapes inspect_gguf
\* and no pass is made after the error.
C5_CaughtInLoopOrByCaller ==
  /\ stream # "unopened" => exc # "escaped" /\ pc # "crashed"
  /\ exc \in {"raised", "handled"} => HeaderCut /\ iter = 0 /\ kv_count = <<>>
  /\ (pc = "raw_loop" \/ iter > 0) => exc = "none"
  /\ (MagicRead /\ pc # "raw_header" /\ HeaderCut)
       => exc \in {"raised", "handled"} /\ stream = "closed"
  /\ exc = "raised" => pc = "inspect_except"
  /\ exc = "handled" => pc = "done" /\ LastLine.kind = "raw_failed"
  /\ LinesOf({"error"}) # <<>>
       => /\ Len(LinesOf({"error"})) = 1
          /\ LastLine.kind = "error"
          /\ stopped
          /\ exc = "none"

\* A header cut inside the tensor count: the struct.error reached the
\* except clause of inspect_gguf, which printed it.
C5_Witness ==
  /\ pc = "done"
  /\ exc = "handled"
  /\ Len(file) > 8
  /\ Len(file) < 16
  /\ LastLine.kind = "raw_failed"

\* C6: outside inspect_gguf_raw the stream it opened is closed, whichever
\* way the call ended; it is open only between open and the end of the call.
C6_StreamClosedOnExit ==
  /\ stream = "open" => pc \in {"raw_magic", "raw_header", "raw_loop"}
  /\ (pc \in {"done", "crashed", "inspect_except"} /\ stream # "unopened")
       => stream = "closed"
  /\ pc \in {"raw_magic", "raw_header", "raw_loop"} => stream = "open"

\* The header raised and the stream is closed.
C6_Witness == pc = "inspect_except" /\ exc = "raised" /\ stream = "closed"

\* Offset in the file of entry k of the input (of the end of the entries
\* for k = Len(inp.ents) + 1).
EntryStart(k) == HeaderLen + Len(EncodeEntries(SubSeq(inp.ents, 1, k - 1)))

\* The loop is about to parse entry iter + 1 of the input, all of whose
\* bytes are in the file.
AtWholeEntry ==
  /\ pc = "raw_loop"
  /\ inp.magic = GGUF_MAGIC
  /\ iter < Len(inp.ents)
  /\ pos = EntryStart(iter + 1)
  /\ EntryStart(iter + 2) <= Len(file)

\* C7: a pass over a complete string entry whose bytes are not UTF-8 prints
\* the pair, with U+FFFD in the value, and leaves the loop running at the
\* start of the next entry; a pass over an entry whose key is not UTF-8
\* prints a diagnostic, no pair, and ends the walk.
C7_InvalidUtf8 ==
  [][ (AtWholeEntry /\ iter' = iter + 1) =>
        LET e == inp.ents[iter + 1]
        IN /\ (/\ Utf8Valid(e.key)
               /\ e.tag = GGUF_TYPE_STRING
               /\ PayloadComplete(e)
               /\ ~Utf8Valid(SubSeq(Payload(e), 9, Len(Payload(e)))))
                => /\ out' = Append(out, LastLine')
                   /\ LastLine'.kind = "pair"
                   /\ LastLine'.key = DecodeReplace(e.key)
                   /\ LastLine'.value.t = "str"
                   /\ 65533 \in RangeOf(LastLine'.value.d)
                   /\ ~stopped'
                   /\ pc' = "raw_loop"
                   /\ pos' = EntryStart(iter + 2)
           /\ ~Utf8Valid(e.key)
                => /\ out' = Append(out, LastLine')
                   /\ LastLine'.kind = "error"
                   /\ stopped'
     ]_vars

\* After a string value that is not UTF-8 was printed with U+FFFD, the next
\* entry was printed too.
C7_Witness ==
  /\ pc = "done"
  /\ Len(out) >= 2
  /\ out[Len(out) - 1].kind = "pair"
  /\ 65533 \in RangeOf(out[Len(out) - 1].value.d)
  /\ LastLine.kind = "pair"
  /\ iter = 2

\* C8: for a path that does not exist the program prints that the file was
\* not found and ends: inspect_gguf is never entered, nothing is opened or
\* read, no exception arises.
C8_MissingPathNotRead ==
  ~exists =>
    /\ pc \in {"main", "done"}
    /\ stream = "unopened"
    /\ reads = 0
    /\ exc = "none"
    /\ LinesOf({"inspecting", "fallback", "bad_magic", "header"}) = <<>>
    /\ pc = "done" => LastLine.kind = "not_found"

\* The default path does not exist and the program has ended.
C8_Witness ==
  /\ ~exists
  /\ ~hasArg
  /\ pc = "done"
  /\ Len(out) = 2
  /\ LastLine.kind = "not_found"

\* Where the entry that starts at position p ends by the lengths it
\* declares; beyond the end of the file when a length field itself is cut
\* short or is larger than any file.
DeclaredEnd(f, p) ==
  LET beyond == Len(f) + 1
      lb == Read(f, p, 8)
      p2 == p + 8 + NatOf(Strip(lb))
      tb == Read(f, p2, 4)
      t == Strip(tb)
      sb == Read(f, p2 + 4, 8)
  IN IF Len(lb) < 8 \/ ~IsSmall(Strip(lb)) THEN beyond
     ELSE IF Len(tb) < 4 THEN beyond
     ELSE IF t \in {<<4>>, <<5>>, <<6>>} THEN p2 + 8
     ELSE IF t \in {<<10>>, <<11>>} THEN p2 + 12
     ELSE IF t = <<7>> THEN p2 + 5
     ELSE IF t = <<9>> THEN p2 + 16
     ELSE IF t = <<8>> THEN
       IF Len(sb) < 8 \/ ~IsSmall(Strip(sb)) THEN beyond
       ELSE p2 + 12 + NatOf(Strip(sb))
     ELSE p2 + 4

\* C9: a pass over an entry whose declared bytes run past the end of the
\* stream prints a diagnostic, no pair, and ends the walk.
C9_PartialEntryNotEmitted ==
  [][ (pc = "raw_loop" /\ iter' = iter + 1 /\ DeclaredEnd(file, pos) > Len(file))
        => /\ LastLine'.kind = "error"
           /\ stopped'
           /\ PairLines' = PairLines
     ]_vars

\* The walk as the loop can have left it: at most kv_count passes, a line
\* per pass, pairs only until the one line of the pass that stopped it.
WalkBounded ==
  LET walk == LinesOf({"pair", "array", "unknown", "error"})
  IN /\ iter = 0 \/ LessThan(iter - 1, kv_count)
     /\ Len(walk) = iter
     /\ Len(PairLines) <= iter
     /\ pos <= Len(file)
     /\ Len(StopLines) = (IF stopped THEN 1 ELSE 0)
     /\ stopped => LastLine.kind \in {"array", "unknown", "error"}
     /\ stopped => Len(PairLines) = iter - 1

\* Steps the program still has before it, at most: the stage it is in,
\* and inside the loop the bytes left to read and the break not yet taken.
Stage ==
  CASE pc = "main" -> 6
    [] pc = "inspect_gguf" -> 5
    [] pc \in {"report", "raw_open"} -> 4
    [] pc = "raw_magic" -> 3
    [] pc = "raw_header" -> 2
    [] pc \in {"raw_loop", "inspect_except"} -> 1
    [] OTHER -> 0

Remaining ==
  Stage * (2 * Len(file) + 2)
    + (IF pc = "raw_loop"
       THEN 2 * (Len(file) - pos) + (IF stopped THEN 0 ELSE 1)
       ELSE 0)

\* Some step of the program can be taken: the guards of the actions, of
\* which the two of the loop complement each other.
CanStep ==
  \/ pc \in {"main", "inspect_gguf", "report", "raw_open", "raw_magic",
              "raw_header", "inspect_except"}
  \/ pc = "raw_loop" /\ LoopContinues
  \/ pc = "raw_loop" /\ ~LoopContinues

\* C10: the walk makes at most kv_count passes and prints at most kv_count
\* pairs, the position never moves back, after the pass that leaves the
\* loop (which prints the one stop line) nothing more is read or printed,
\* and the program ends: every step brings the end nearer and the program
\* is never stuck before it.
C10_WalkTerminates ==
  /\ [](WalkBounded /\ (Finished \/ CanStep))
  /\ [][ /\ Remaining' < Remaining
         /\ pos' >= pos
         /\ iter' >= iter
         /\ stopped => /\ stopped'
                       /\ pos' = pos
                       /\ reads' = reads
                       /\ iter' = iter
                       /\ out' = out
     ]_vars

\* A header declaring 2^64-1 entries over a file of two: the walk printed
\* both, stopped at the end of the file with one diagnostic, and is over.
C10_Witness ==
  /\ pc = "done"
  /\ kv_count = AllOnes8
  /\ inp.tail = <<>>
  /\ iter = 3
  /\ Len(PairLines) = 2
  /\ stopped
  /\ LastLine.kind = "error"
  /\ pos = Len(file)

====
